---- MODULE Spec2Model ----
(***************************************************************************)
(* Task dependency store (the /api/todos routes) and the client-side       *)
(* insight computation (calculateTaskInsights) of SomaSolution.            *)
(*                                                                         *)
(* Spec         : the store under POST / PUT / DELETE requests that are    *)
(*                executed one at a time.                                  *)
(* SpecConc     : two PUT requests whose awaited database reads and        *)
(*                commits interleave.                                      *)
(* SpecInsights : calculateTaskInsights applied to bounded snapshots.      *)
(***************************************************************************)
EXTENDS Integers, Sequences, FiniteSets, TLC

\* ------------------------------------------------------------------ bounds
\* Largest task id the store hands out (ids are 1..MaxId, never reused).
MaxId == 3
\* Largest number of tasks of a snapshot given to calculateTaskInsights.
MaxTasks == 3
\* Largest number of depends-on references of such a snapshot.
MaxEdges == 3
\* Creation instants are 1..MaxTime (milliseconds since the epoch, > 0).
MaxTime == 2

TodoIds == 1..MaxId

VARIABLES
    todos,      \* ids of the rows of the Todo table
    dependsOn,  \* committed relation: dependsOn[t] = ids t depends on
    nextId,     \* next autoincrement id
    resp,       \* response of the last request handled
    reqs,       \* SpecConc: the PUT requests in flight, by request slot
    snapshot,   \* SpecInsights: the todos array given to calculateTaskInsights
    pc,         \* SpecInsights: "input" before the call, "done" after it
    result,     \* SpecInsights: what calculateTaskInsights returned
    taskInsights, \* SpecInsights: the page's taskInsights state
    probe       \* SpecProbe: the last call of checkCircularDependency

vars == <<todos, dependsOn, nextId, resp, reqs, snapshot, pc, result, taskInsights,
          probe>>

storeVars == <<todos, dependsOn, nextId, resp>>
clientVars == <<snapshot, pc, result, taskInsights>>

\* ------------------------------------------------------------ helpers
Range(s) == {s[i] : i \in 1..Len(s)}

Min(S) == CHOOSE x \in S : \A y \in S : x <= y

RECURSIVE SortedSeq(_)
\* the elements of a finite set of integers in ascending order
SortedSeq(S) == IF S = {} THEN <<>> ELSE <<Min(S)>> \o SortedSeq(S \ {Min(S)})

\* all duplicate-free sequences over S
RECURSIVE SeqsOver(_)
SeqsOver(S) ==
    {<<>>} \cup UNION {{<<x>> \o s : s \in SeqsOver(S \ {x})} : x \in S}

\* ------------------------------------------------- graph vocabulary
\* nodes reachable from x along one or more edges of rel
RECURSIVE ReachFrom(_, _, _)
ReachFrom(rel, frontier, seen) ==
    LET next == (UNION {rel[x] : x \in frontier}) \ seen
    IN  IF next = {} THEN seen ELSE ReachFrom(rel, next, seen \cup next)

Reachable(rel, x) == ReachFrom(rel, {x}, {})

IsAcyclic(rel, nodes) == \A x \in nodes : x \notin Reachable(rel, x)

\* the relation after task t's depends-on set is replaced by S
Replaced(rel, t, S) == [rel EXCEPT ![t] = S]

NoResp == [op |-> "none", status |-> 0, error |-> "none",
           todoId |-> 0, ids |-> <<>>, named |-> <<>>]

NoProbe == [called |-> FALSE, todoId |-> 0, dependencyId |-> 0,
            found |-> FALSE, visits |-> <<>>]

NoResult == [hasCycle |-> FALSE, sortedOrder |-> <<>>, insights |-> <<>>,
             graph |-> <<>>, reverseGraph |-> <<>>, criticalPath |-> <<>>,
             threw |-> FALSE]

\* ------------------------------------------------ server: route handlers

\* prisma.todo.findUnique({where: {id}, include: {dependsOn: true}}):
\* the related rows, which the database returns in id order.
FindDependsOn(id) == SortedSeq(dependsOn[id])

RECURSIVE checkCircularDependency(_, _, _)
RECURSIVE ProbeDeps(_, _, _)

\* a probe that looks at the direct dependencies of dependencyId only
checkCircularDependency_Shallow(todoId, dependencyId, visited) ==
    [found |-> \/ todoId = dependencyId
               \/ dependencyId \in todos /\ todoId \in dependsOn[dependencyId],
     visited |-> visited \cup {dependencyId}, visits |-> <<dependencyId>>]

\* a probe that never follows the dependencies of dependencyId
checkCircularDependency_NoDescent(todoId, dependencyId, visited) ==
    [found |-> todoId = dependencyId, visited |-> visited \cup {dependencyId},
     visits |-> <<dependencyId>>]

\* a probe that searches from todoId for dependencyId
checkCircularDependency_Swapped(todoId, dependencyId, visited) ==
    [found |-> \/ todoId = dependencyId
               \/ todoId \in todos /\ dependencyId \in Reachable(dependsOn, todoId),
     visited |-> visited \cup {dependencyId}, visits |-> <<dependencyId>>]

\* checkCircularDependency(todoId, dependencyId, visited); the visited set is
\* shared by the whole recursion, so it is returned with the verdict. visits
\* lists, in order, the ids for which a call got past the visited check.
checkCircularDependency(todoId, dependencyId, visited) ==
    IF dependencyId \in visited
    THEN [found |-> FALSE, visited |-> visited, visits |-> <<>>]
    ELSE LET v1 == visited \cup {dependencyId}
         IN  IF todoId = dependencyId
             THEN [found |-> TRUE, visited |-> v1, visits |-> <<dependencyId>>]
             ELSE IF dependencyId \notin todos
                  THEN [found |-> FALSE, visited |-> v1,
                        visits |-> <<dependencyId>>]
                  ELSE LET r == ProbeDeps(todoId, FindDependsOn(dependencyId), v1)
                       IN  [r EXCEPT !.visits = <<dependencyId>> \o r.visits]

\* a loop that hands every dependency the visited set the loop started with
ProbeDeps_PathVisited(todoId, deps, visited) ==
    IF deps = <<>>
    THEN [found |-> FALSE, visited |-> visited, visits |-> <<>>]
    ELSE LET r == checkCircularDependency(todoId, Head(deps), visited)
         IN  IF r.found THEN r
             ELSE LET q == ProbeDeps(todoId, Tail(deps), visited)
                  IN  [q EXCEPT !.visits = r.visits \o q.visits]

\* for (const dep of dependency.dependsOn) { if (await check...) return true }
ProbeDeps(todoId, deps, visited) ==
    IF deps = <<>>
    THEN [found |-> FALSE, visited |-> visited, visits |-> <<>>]
    ELSE LET r == checkCircularDependency(todoId, Head(deps), visited)
         IN  IF r.found THEN r
             ELSE LET q == ProbeDeps(todoId, Tail(deps), r.visited)
                  IN  [q EXCEPT !.visits = r.visits \o q.visits]

\* a validation loop that returns after looking at the first id only
PutValidate_FirstOnly(todoId, ids, i) ==
    IF i > Len(ids)
    THEN [error |-> "none", newDepId |-> 0]
    ELSE IF todoId = ids[i]
         THEN [error |-> "self", newDepId |-> ids[i]]
         ELSE IF checkCircularDependency(todoId, ids[i], {}).found
              THEN [error |-> "cycle", newDepId |-> ids[i]]
              ELSE [error |-> "none", newDepId |-> 0]

RECURSIVE PutValidate_NamesFirst(_, _, _)
\* a validation loop whose cycle error names the first proposed id
PutValidate_NamesFirst(todoId, ids, i) ==
    IF i > Len(ids)
    THEN [error |-> "none", newDepId |-> 0]
    ELSE IF todoId = ids[i]
         THEN [error |-> "self", newDepId |-> ids[i]]
         ELSE IF checkCircularDependency(todoId, ids[i], {}).found
              THEN [error |-> "cycle", newDepId |-> ids[1]]
              ELSE PutValidate_NamesFirst(todoId, ids, i + 1)

RECURSIVE PutValidate(_, _, _)
\* the validation loop of PUT over dependsOnIds, from index i on
PutValidate(todoId, ids, i) ==
    IF i > Len(ids)
    THEN [error |-> "none", newDepId |-> 0]
    ELSE IF todoId = ids[i]
         THEN [error |-> "self", newDepId |-> ids[i]]
         ELSE IF checkCircularDependency(todoId, ids[i], {}).found
              THEN [error |-> "cycle", newDepId |-> ids[i]]
              ELSE PutValidate(todoId, ids, i + 1)

\* a PUT whose update connects the proposed ids to the stored ones
PUT_Connect(todoId, ids) ==
    LET v == PutValidate(todoId, ids, 1)
    IN  /\ UNCHANGED <<todos, nextId, reqs, clientVars, probe>>
        /\ IF v.error # "none"
           THEN /\ resp' = [op |-> "PUT", status |-> 400, error |-> v.error,
                            todoId |-> todoId, ids |-> ids,
                            named |-> <<v.newDepId, todoId>>]
                /\ UNCHANGED dependsOn
           ELSE IF todoId \notin todos \/ ~(Range(ids) \subseteq todos)
                THEN /\ resp' = [op |-> "PUT", status |-> 500, error |-> "update",
                                 todoId |-> todoId, ids |-> ids, named |-> <<>>]
                     /\ UNCHANGED dependsOn
                ELSE /\ dependsOn' = [dependsOn EXCEPT
                                         ![todoId] = dependsOn[todoId] \cup Range(ids)]
                     /\ resp' = [op |-> "PUT", status |-> 200, error |-> "none",
                                 todoId |-> todoId, ids |-> ids, named |-> <<>>]

\* PUT /api/todos/:id with body {dependsOnIds: ids}
PUT(todoId, ids) ==
    LET v == PutValidate(todoId, ids, 1)
    IN  /\ UNCHANGED <<todos, nextId, reqs, clientVars, probe>>
        /\ IF v.error # "none"
           THEN /\ resp' = [op |-> "PUT", status |-> 400, error |-> v.error,
                            todoId |-> todoId, ids |-> ids,
                            named |-> <<v.newDepId, todoId>>]
                /\ UNCHANGED dependsOn
           ELSE IF todoId \notin todos \/ ~(Range(ids) \subseteq todos)
                \* prisma.todo.update throws: caught, answered with 500
                THEN /\ resp' = [op |-> "PUT", status |-> 500, error |-> "update",
                                 todoId |-> todoId, ids |-> ids, named |-> <<>>]
                     /\ UNCHANGED dependsOn
                ELSE /\ dependsOn' = [dependsOn EXCEPT ![todoId] = Range(ids)]
                     /\ resp' = [op |-> "PUT", status |-> 200, error |-> "none",
                                 todoId |-> todoId, ids |-> ids, named |-> <<>>]

\* PUT with a path parameter that parseInt turns into NaN
PUT_InvalidId ==
    /\ resp' = [op |-> "PUT", status |-> 400, error |-> "invalid id",
                todoId |-> 0, ids |-> <<>>, named |-> <<>>]
    /\ UNCHANGED <<todos, dependsOn, nextId, reqs, clientVars, probe>>

\* POST /api/todos with body {title, dueDate, dependsOnIds: ids}
POST(titleOk, ids) ==
    /\ nextId <= MaxId
    /\ UNCHANGED <<reqs, clientVars, probe>>
    /\ IF ~titleOk
       THEN /\ resp' = [op |-> "POST", status |-> 400, error |-> "title",
                        todoId |-> 0, ids |-> ids, named |-> <<>>]
            /\ UNCHANGED <<todos, dependsOn, nextId>>
       ELSE IF ~(Range(ids) \subseteq todos)
            \* connect to a missing row: prisma.todo.create throws
            THEN /\ resp' = [op |-> "POST", status |-> 500, error |-> "create",
                             todoId |-> 0, ids |-> ids, named |-> <<>>]
                 /\ UNCHANGED <<todos, dependsOn, nextId>>
            ELSE /\ todos' = todos \cup {nextId}
                 /\ dependsOn' = [dependsOn EXCEPT ![nextId] = Range(ids)]
                 /\ nextId' = nextId + 1
                 /\ resp' = [op |-> "POST", status |-> 201, error |-> "none",
                             todoId |-> nextId, ids |-> ids, named |-> <<>>]

\* DELETE /api/todos/:id
DELETE(id) ==
    /\ UNCHANGED <<nextId, reqs, clientVars, probe>>
    /\ IF id \notin todos
       THEN /\ resp' = [op |-> "DELETE", status |-> 500, error |-> "delete",
                        todoId |-> id, ids |-> <<>>, named |-> <<>>]
            /\ UNCHANGED <<todos, dependsOn>>
       ELSE /\ todos' = todos \ {id}
            \* the rows of the implicit relation table go with the task
            /\ dependsOn' = [t \in TodoIds |->
                                IF t = id THEN {} ELSE dependsOn[t] \ {id}]
            /\ resp' = [op |-> "DELETE", status |-> 200, error |-> "none",
                        todoId |-> id, ids |-> <<>>, named |-> <<>>]

\* ------------------------------------- server: PUT requests that overlap
\* Every await on the database is a point where the other request may run.
\* A request record holds the handler's locals: the loop index i over
\* dependsOnIds, the visited set of the running probe, and one list of
\* dependencies still to be probed per active checkCircularDependency call.

Slots == {"r1", "r2"}

Idle == [pc |-> "idle", todoId |-> 0, ids |-> <<>>, i |-> 0, visited |-> {},
         stack |-> <<>>, cur |-> 0, error |-> "none", status |-> 0]

Finished(q, st, err) ==
    [Idle EXCEPT !.pc = "done", !.todoId = q.todoId, !.ids = q.ids, !.i = q.i,
                 !.status = st, !.error = err]

RECURSIVE RunLoop(_)
RECURSIVE RunProbe(_)

\* PUT's for loop at index q.i, run up to the next awaited database call
RunLoop(q) ==
    IF q.i > Len(q.ids)
    THEN [q EXCEPT !.pc = "commit", !.visited = {}, !.stack = <<>>, !.cur = 0]
    ELSE IF q.todoId = q.ids[q.i]
         THEN Finished(q, 400, "self")
         \* checkCircularDependency(todoId, newDepId, new Set()) up to findUnique
         ELSE [q EXCEPT !.pc = "read", !.visited = {q.ids[q.i]},
                        !.stack = <<>>, !.cur = q.ids[q.i]]

\* the active checkCircularDependency calls, run up to the next findUnique
RunProbe(q) ==
    IF q.stack = <<>>
    THEN RunLoop([q EXCEPT !.i = q.i + 1])                \* probe returned false
    ELSE LET n   == Len(q.stack)
             top == q.stack[n]
         IN  IF top = <<>>
             THEN RunProbe([q EXCEPT !.stack = SubSeq(q.stack, 1, n - 1)])
             ELSE LET d    == Head(top)
                      rest == [q EXCEPT !.stack[n] = Tail(top)]
                  IN  IF d \in q.visited
                      THEN RunProbe(rest)
                      ELSE IF q.todoId = d
                           THEN Finished(q, 400, "cycle")
                           ELSE [rest EXCEPT !.pc = "read", !.cur = d,
                                             !.visited = q.visited \cup {d}]

\* the handler is entered and runs up to its first database call
PutBegin(r, todoId, ids) ==
    /\ reqs[r].pc = "idle"
    /\ reqs' = [reqs EXCEPT ![r] =
                   RunLoop([Idle EXCEPT !.todoId = todoId, !.ids = ids, !.i = 1])]
    /\ UNCHANGED <<storeVars, clientVars, probe>>

\* an awaited prisma.todo.findUnique of the probe completes
PutRead(r) ==
    /\ reqs[r].pc = "read"
    /\ LET q == reqs[r]
           L == IF q.cur \in todos THEN FindDependsOn(q.cur) ELSE <<>>
       IN  reqs' = [reqs EXCEPT ![r] = RunProbe([q EXCEPT !.stack = Append(q.stack, L)])]
    /\ UNCHANGED <<storeVars, clientVars, probe>>

\* the awaited prisma.todo.update completes and the handler answers
PutCommit(r) ==
    /\ reqs[r].pc = "commit"
    /\ LET q == reqs[r]
       IN  IF q.todoId \notin todos \/ ~(Range(q.ids) \subseteq todos)
           THEN /\ reqs' = [reqs EXCEPT ![r] = Finished(q, 500, "update")]
                /\ UNCHANGED dependsOn
           ELSE /\ reqs' = [reqs EXCEPT ![r] = Finished(q, 200, "none")]
                /\ dependsOn' = [dependsOn EXCEPT ![q.todoId] = Range(q.ids)]
    /\ UNCHANGED <<todos, nextId, resp, clientVars, probe>>

NoReqs == [r \in Slots |-> Idle]

Init ==
    /\ todos = {}
    /\ dependsOn = [t \in TodoIds |-> {}]
    /\ nextId = 1
    /\ resp = NoResp
    /\ reqs = NoReqs
    /\ snapshot = <<>> /\ pc = "none" /\ result = NoResult /\ taskInsights = <<>>
    /\ probe = NoProbe

Next ==
    \/ \E t \in TodoIds, ids \in SeqsOver(TodoIds) : PUT(t, ids)
    \/ PUT_InvalidId
    \/ \E ok \in BOOLEAN, ids \in SeqsOver(TodoIds) : POST(ok, ids)
    \/ \E id \in TodoIds : DELETE(id)

Spec == Init /\ [][Next]_vars

\* two requests arrive at a store of MaxId tasks that requests handled one
\* at a time have left with some acyclic relation
InitConc ==
    /\ todos = TodoIds
    /\ dependsOn \in {rel \in [TodoIds -> SUBSET TodoIds] : IsAcyclic(rel, TodoIds)}
    /\ nextId = MaxId + 1
    /\ resp = NoResp
    /\ reqs = NoReqs
    /\ snapshot = <<>> /\ pc = "none" /\ result = NoResult /\ taskInsights = <<>>
    /\ probe = NoProbe

NextConc ==
    \/ \E r \in Slots, t \in TodoIds, ids \in SeqsOver(TodoIds) : PutBegin(r, t, ids)
    \/ \E r \in Slots : PutRead(r)
    \/ \E r \in Slots : PutCommit(r)

SpecConc == InitConc /\ [][NextConc]_vars

\* ----------------------------- server: the probe on any committed graph
\* ids a request can name: those the store has handed out and one it has not
ProbeIds == 1..(MaxId + 1)

\* one top-level call checkCircularDependency(todoId, newDepId, new Set()),
\* as PUT makes it for a proposed id, with no other request running
Probe(todoId, dependencyId) ==
    /\ ~probe.called
    /\ LET r == checkCircularDependency(todoId, dependencyId, {})
       IN  probe' = [called |-> TRUE, todoId |-> todoId,
                     dependencyId |-> dependencyId,
                     found |-> r.found, visits |-> r.visits]
    /\ UNCHANGED <<storeVars, reqs, clientVars>>

\* any store whose rows refer to existing rows only and never to themselves;
\* overlapping PUT requests can leave it with cycles (see C3)
InitProbe ==
    /\ todos \in SUBSET TodoIds
    /\ dependsOn \in [TodoIds -> SUBSET TodoIds]
    /\ \A t \in TodoIds :
          dependsOn[t] \subseteq (IF t \in todos THEN todos \ {t} ELSE {})
    /\ nextId = MaxId + 1
    /\ resp = NoResp
    /\ reqs = NoReqs
    /\ snapshot = <<>> /\ pc = "none" /\ result = NoResult /\ taskInsights = <<>>
    /\ probe = NoProbe

NextProbe == \E t \in ProbeIds, d \in ProbeIds : Probe(t, d)

SpecProbe == InitProbe /\ [][NextProbe]_vars

\* ------------------------------------------ client: calculateTaskInsights
\* A Date is the one-element sequence of its getTime() value, null is <<>>.
Null == <<>>
Date(t) == <<t>>
getTime(d) == d[1]
Max2(a, b) == IF a >= b THEN a ELSE b

\* a due date before 1970-01-01, whose getTime() is below -1
PreEpoch == -2

\* todos.find(t => t.id === id), for an id that is present
Find(todosArr, id) ==
    todosArr[CHOOSE i \in 1..Len(todosArr) :
                /\ todosArr[i].id = id
                /\ \A j \in 1..(i - 1) : todosArr[j].id # id]

\* the ids of a todos array, in array order
IdsOf(todosArr) == [i \in 1..Len(todosArr) |-> todosArr[i].id]

\* a reverse entry filled with the ids the todo itself refers to
Dependents_Forward(todosArr, id) ==
    LET kept == SelectSeq(Find(todosArr, id).dependsOn,
                          LAMBDA dep : dep.id \in Range(IdsOf(todosArr)))
    IN  [k \in 1..Len(kept) |-> kept[k].id]

RECURSIVE Dependents(_, _)
\* reverseGraph.get(id): one entry per todo, in array order, that lists id
Dependents(todosArr, id) ==
    IF todosArr = <<>> THEN <<>>
    ELSE LET t == Head(todosArr)
             hits == SelectSeq(t.dependsOn, LAMBDA dep : dep.id = id)
         IN  [k \in 1..Len(hits) |-> t.id] \o Dependents(Tail(todosArr), id)

\* a builder that leaves out every reference of a todo that has a reference
\* to a missing id
buildDependencyGraph_DropsWholeTodo(todosArr) ==
    LET nodes == IdsOf(todosArr)
        inNodes(dep) == dep.id \in Range(nodes)
    IN  [nodes |-> nodes,
         graph |-> [id \in Range(nodes) |->
                      LET deps == Find(todosArr, id).dependsOn
                          kept == IF \A k \in 1..Len(deps) : inNodes(deps[k])
                                  THEN deps ELSE <<>>
                      IN  [k \in 1..Len(kept) |-> kept[k].id]],
         reverseGraph |-> [id \in Range(nodes) |-> Dependents(todosArr, id)]]

\* buildDependencyGraph(todos)
buildDependencyGraph(todosArr) ==
    LET nodes == IdsOf(todosArr)
        inNodes(dep) == dep.id \in Range(nodes)
    IN  [nodes |-> nodes,
         graph |-> [id \in Range(nodes) |->
                      LET kept == SelectSeq(Find(todosArr, id).dependsOn, inNodes)
                      IN  [k \in 1..Len(kept) |-> kept[k].id]],
         reverseGraph |-> [id \in Range(nodes) |-> Dependents(todosArr, id)]]

RECURSIVE AdjOf(_, _, _)
\* adj.get(v) after nodes.forEach(u => graph.get(u).forEach(v => adj.get(v).push(u)))
AdjOf(graph, nodes, v) ==
    IF nodes = <<>> THEN <<>>
    ELSE LET u == Head(nodes)
             hits == SelectSeq(graph[u], LAMBDA x : x = v)
         IN  [k \in 1..Len(hits) |-> u] \o AdjOf(graph, Tail(nodes), v)

RECURSIVE Relax(_, _, _)
\* adj.get(u).forEach(v => { inDegree--; if (inDegree === 0) queue.push(v) })
Relax(vs, inDegree, queue) ==
    IF vs = <<>> THEN [inDegree |-> inDegree, queue |-> queue]
    ELSE LET v == Head(vs)
             d == inDegree[v] - 1
         IN  Relax(Tail(vs), [inDegree EXCEPT ![v] = d],
                   IF d = 0 THEN Append(queue, v) ELSE queue)

RECURSIVE KahnLoop_Pop(_, _, _, _)
\* a loop that takes the next node from the end of the queue
KahnLoop_Pop(adj, inDegree, queue, sortedOrder) ==
    IF queue = <<>> THEN sortedOrder
    ELSE LET u == queue[Len(queue)]
             r == Relax(adj[u], inDegree, SubSeq(queue, 1, Len(queue) - 1))
         IN  KahnLoop_Pop(adj, r.inDegree, r.queue, Append(sortedOrder, u))

RECURSIVE KahnLoop(_, _, _, _)
\* while (queue.length > 0) { u = queue.shift(); sortedOrder.push(u); ... }
KahnLoop(adj, inDegree, queue, sortedOrder) ==
    IF queue = <<>> THEN sortedOrder
    ELSE LET u == Head(queue)
             r == Relax(adj[u], inDegree, Tail(queue))
         IN  KahnLoop(adj, r.inDegree, r.queue, Append(sortedOrder, u))

\* a sort that reports a cycle only when it emitted too many nodes
topologicalSort_NeverShort(graph, nodes) ==
    LET inDegree == [u \in Range(nodes) |-> Len(graph[u])]
        adj == [v \in Range(nodes) |-> AdjOf(graph, nodes, v)]
        queue == SelectSeq(nodes, LAMBDA node : inDegree[node] = 0)
        sortedOrder == KahnLoop(adj, inDegree, queue, <<>>)
    IN  [sortedOrder |-> sortedOrder, hasCycle |-> Len(sortedOrder) > Len(nodes)]

\* topologicalSort(graph, nodes)
topologicalSort(graph, nodes) ==
    LET inDegree == [u \in Range(nodes) |-> Len(graph[u])]
        adj == [v \in Range(nodes) |-> AdjOf(graph, nodes, v)]
        queue == SelectSeq(nodes, LAMBDA node : inDegree[node] = 0)
        sortedOrder == KahnLoop(adj, inDegree, queue, <<>>)
    IN  [sortedOrder |-> sortedOrder, hasCycle |-> Len(sortedOrder) # Len(nodes)]

RECURSIVE MaxPredecessorCompletion_IgnoresDueDate(_, _, _, _)
\* a scan that always takes the dependency's earliest start
MaxPredecessorCompletion_IgnoresDueDate(todosArr, deps, insights, acc) ==
    IF deps = <<>> THEN acc
    ELSE MaxPredecessorCompletion_IgnoresDueDate(todosArr, Tail(deps), insights,
            Max2(acc, getTime(insights[Head(deps)].earliestStart)))

RECURSIVE MaxPredecessorCompletion(_, _, _, _)
\* for (const depId of dependencies) { maxPredecessorCompletion = ... }
MaxPredecessorCompletion(todosArr, deps, insights, acc) ==
    IF deps = <<>> THEN acc
    ELSE LET depId == Head(deps)
             dep == Find(todosArr, depId)
             next == IF dep.dueDate # Null
                     THEN Max2(acc, getTime(dep.dueDate))
                     ELSE Max2(acc, getTime(insights[depId].earliestStart))
         IN  MaxPredecessorCompletion(todosArr, Tail(deps), insights, next)

RECURSIVE ScheduleLoop(_, _, _, _)
\* for (const todoId of sortedOrder) { ... insights.get(todoId).earliestStart = ... }
ScheduleLoop(todosArr, graph, order, insights) ==
    IF order = <<>> THEN insights
    ELSE LET todoId == Head(order)
             todo == Find(todosArr, todoId)
             m == MaxPredecessorCompletion(todosArr, graph[todoId], insights,
                                           getTime(todo.createdAt))
             es == Max2(getTime(insights[todoId].earliestStart), m)
         IN  ScheduleLoop(todosArr, graph, Tail(order),
                          [insights EXCEPT ![todoId].earliestStart = Date(es)])

RECURSIVE LastTaskOnCriticalPath_NoCompare(_, _, _, _)
\* a scan that takes every task it looks at, whatever its earliest start
LastTaskOnCriticalPath_NoCompare(order, insights, maxProjectCompletionTime, last) ==
    IF order = <<>> THEN last
    ELSE LastTaskOnCriticalPath_NoCompare(Tail(order), insights,
                                          maxProjectCompletionTime, <<Head(order)>>)

RECURSIVE LastTaskOnCriticalPath_LastMax(_, _, _, _)
\* a scan that also takes a task whose earliest start equals the maximum
LastTaskOnCriticalPath_LastMax(order, insights, maxProjectCompletionTime, last) ==
    IF order = <<>> THEN last
    ELSE LET t == getTime(insights[Head(order)].earliestStart)
         IN  IF t >= maxProjectCompletionTime
             THEN LastTaskOnCriticalPath_LastMax(Tail(order), insights, t,
                                                 <<Head(order)>>)
             ELSE LastTaskOnCriticalPath_LastMax(Tail(order), insights,
                                                 maxProjectCompletionTime, last)

RECURSIVE LastTaskOnCriticalPath(_, _, _, _)
\* sortedOrder.forEach(todoId => { if (time > maxProjectCompletionTime) ... })
LastTaskOnCriticalPath(order, insights, maxProjectCompletionTime, last) ==
    IF order = <<>> THEN last
    ELSE LET t == getTime(insights[Head(order)].earliestStart)
         IN  IF t > maxProjectCompletionTime
             THEN LastTaskOnCriticalPath(Tail(order), insights, t, <<Head(order)>>)
             ELSE LastTaskOnCriticalPath(Tail(order), insights,
                                         maxProjectCompletionTime, last)

RECURSIVE NextCriticalDep_Strict(_, _, _, _)
\* a scan that replaces the candidate only for a strictly later completion
NextCriticalDep_Strict(deps, insights, maxDepCompletionTime, nextCriticalDepId) ==
    IF deps = <<>> THEN [next |-> nextCriticalDepId, threw |-> FALSE]
    ELSE LET dep == Head(deps)
         IN  IF dep.dueDate = Null /\ dep.id \notin DOMAIN insights
             THEN [next |-> nextCriticalDepId, threw |-> TRUE]
             ELSE LET depCompletionTime ==
                          IF dep.dueDate # Null THEN getTime(dep.dueDate)
                          ELSE getTime(insights[dep.id].earliestStart)
                  IN  IF depCompletionTime > maxDepCompletionTime
                      THEN NextCriticalDep_Strict(Tail(deps), insights,
                                                  depCompletionTime, <<dep.id>>)
                      ELSE NextCriticalDep_Strict(Tail(deps), insights,
                                                  maxDepCompletionTime,
                                                  nextCriticalDepId)

RECURSIVE NextCriticalDep(_, _, _, _)
\* for (const dep of currentTodo.dependsOn) { if (time >= max) next = dep.id }
\* insights.get(dep.id)!.earliestStart is a TypeError when dep.id has no entry
NextCriticalDep(deps, insights, maxDepCompletionTime, nextCriticalDepId) ==
    IF deps = <<>> THEN [next |-> nextCriticalDepId, threw |-> FALSE]
    ELSE LET dep == Head(deps)
         IN  IF dep.dueDate = Null /\ dep.id \notin DOMAIN insights
             THEN [next |-> nextCriticalDepId, threw |-> TRUE]
             ELSE LET depCompletionTime ==
                          IF dep.dueDate # Null THEN getTime(dep.dueDate)
                          ELSE getTime(insights[dep.id].earliestStart)
                  IN  IF depCompletionTime >= maxDepCompletionTime
                      THEN NextCriticalDep(Tail(deps), insights, depCompletionTime,
                                           <<dep.id>>)
                      ELSE NextCriticalDep(Tail(deps), insights,
                                           maxDepCompletionTime, nextCriticalDepId)

RECURSIVE Backtrack(_, _, _)
\* while (current !== undefined) { insights.get(current).isCritical = true; ... }
\* st holds the insights map, the tasks marked so far in marking order, and
\* whether a TypeError ended the loop
Backtrack(todosArr, st, current) ==
    IF current = <<>> THEN st
    ELSE IF current[1] \notin DOMAIN st.insights
         THEN [st EXCEPT !.threw = TRUE]
         ELSE LET marked == [st EXCEPT !.insights[current[1]].isCritical = TRUE,
                                       !.path = Append(st.path, current[1])]
                  currentTodo == Find(todosArr, current[1])
              IN  IF currentTodo.dependsOn = <<>> THEN marked
                  ELSE LET n == NextCriticalDep(currentTodo.dependsOn,
                                                marked.insights, -1, <<>>)
                       IN  IF n.threw THEN [marked EXCEPT !.threw = TRUE]
                           ELSE Backtrack(todosArr, marked, n.next)

\* a calculation whose cycle branch returns the insights as initialised from
\* the creation timestamps
calculateTaskInsights_InitBeforeCheck(todosArr) ==
    LET g == buildDependencyGraph(todosArr)
        s == topologicalSort(g.reverseGraph, g.nodes)
        ids == Range(IdsOf(todosArr))
        base == [NoResult EXCEPT !.sortedOrder = s.sortedOrder, !.graph = g.graph,
                                 !.reverseGraph = g.reverseGraph]
        init == [id \in ids |->
                    [earliestStart |-> Find(todosArr, id).createdAt,
                     isCritical |-> FALSE]]
    IN  IF s.hasCycle
        THEN [base EXCEPT !.hasCycle = TRUE, !.insights = init]
        ELSE LET sched == ScheduleLoop(todosArr, g.graph, s.sortedOrder, init)
                 last == LastTaskOnCriticalPath(s.sortedOrder, sched, 0, <<>>)
                 bt == Backtrack(todosArr,
                                 [insights |-> sched, path |-> <<>>, threw |-> FALSE],
                                 last)
             IN  IF bt.threw
                 THEN [base EXCEPT !.threw = TRUE, !.criticalPath = bt.path]
                 ELSE [base EXCEPT !.insights = bt.insights,
                                   !.criticalPath = bt.path]

\* calculateTaskInsights(todos); the adjacency maps, sortedOrder and the
\* order in which tasks were marked critical are kept with the result
calculateTaskInsights(todosArr) ==
    LET g == buildDependencyGraph(todosArr)
        s == topologicalSort(g.reverseGraph, g.nodes)
        ids == Range(IdsOf(todosArr))
        base == [NoResult EXCEPT !.sortedOrder = s.sortedOrder, !.graph = g.graph,
                                 !.reverseGraph = g.reverseGraph]
    IN  IF s.hasCycle
        THEN [base EXCEPT !.hasCycle = TRUE,
                          !.insights = [id \in ids |->
                              [earliestStart |-> Date(0), isCritical |-> FALSE]]]
        ELSE LET init == [id \in ids |->
                            [earliestStart |-> Find(todosArr, id).createdAt,
                             isCritical |-> FALSE]]
                 sched == ScheduleLoop(todosArr, g.graph, s.sortedOrder, init)
                 last == LastTaskOnCriticalPath(s.sortedOrder, sched, 0, <<>>)
                 bt == Backtrack(todosArr,
                                 [insights |-> sched, path |-> <<>>, threw |-> FALSE],
                                 last)
             IN  IF bt.threw
                 THEN [base EXCEPT !.threw = TRUE, !.criticalPath = bt.path]
                 ELSE [base EXCEPT !.insights = bt.insights,
                                   !.criticalPath = bt.path]

\* the effect that recomputes the insights after todos has changed:
\* setTaskInsights(insights) unless calculateTaskInsights threw, and
\* setTaskInsights(new Map()) for an empty todos array; result keeps what
\* calculateTaskInsights yields for the snapshot
Calculate ==
    /\ pc = "input"
    /\ result' = calculateTaskInsights(snapshot)
    /\ taskInsights' = IF Len(snapshot) > 0
                       THEN IF result'.threw THEN taskInsights
                            ELSE result'.insights
                       ELSE <<>>
    /\ pc' = "done"
    /\ UNCHANGED <<storeVars, reqs, snapshot, probe>>

\* ---- bounded snapshots
CreatedTimes == 1..MaxTime
DueDates == {Null, Date(PreEpoch)} \cup {Date(t) : t \in 1..MaxTime}

Orders == {"asc", "desc"}

\* a set of ids as an array, ascending or descending
Listed(S, order) ==
    LET asc == SortedSeq(S)
    IN  IF order = "asc" THEN asc ELSE [i \in 1..Len(asc) |-> asc[Len(asc) + 1 - i]]

\* the todos array for tasks 1..n with the given rows and references; every
\* nested dependsOn entry carries the due date of the row it refers to
MakeSnapshot(n, created, due, edges, order, depOrder) ==
    LET row(id) ==
            LET deps == Listed({d \in 1..n : <<id, d>> \in edges}, depOrder)
            IN  [id |-> id, createdAt |-> Date(created[id]), dueDate |-> due[id],
                 dependsOn |-> [k \in 1..Len(deps) |->
                                  [id |-> deps[k], dueDate |-> due[deps[k]]]]]
        ids == Listed(1..n, order)
    IN  [i \in 1..n |-> row(ids[i])]

InitInsights ==
    /\ todos = {}
    /\ dependsOn = [t \in TodoIds |-> {}]
    /\ nextId = 1
    /\ resp = NoResp
    /\ reqs = NoReqs
    /\ pc = "input"
    /\ result = NoResult
    /\ taskInsights = <<>>
    /\ probe = NoProbe
    /\ \E n \in 0..MaxTasks :
         \E created \in [1..n -> CreatedTimes], due \in [1..n -> DueDates],
            edges \in {E \in SUBSET ((1..n) \X (1..n)) : Cardinality(E) <= MaxEdges},
            order \in Orders, depOrder \in Orders :
              snapshot = MakeSnapshot(n, created, due, edges, order, depOrder)

NextInsights == Calculate

SpecInsights == InitInsights /\ [][NextInsights]_vars

\* the todos array for tasks 1..n in which at least one task refers to id
\* n + 1, which has no row; due[n + 1] is the due date its nested entries carry
MakeDanglingSnapshot(n, created, due, edges, order, depOrder) ==
    LET row(id) ==
            LET deps == Listed({d \in 1..(n + 1) : <<id, d>> \in edges}, depOrder)
            IN  [id |-> id, createdAt |-> Date(created[id]), dueDate |-> due[id],
                 dependsOn |-> [k \in 1..Len(deps) |->
                                  [id |-> deps[k], dueDate |-> due[deps[k]]]]]
        ids == Listed(1..n, order)
    IN  [i \in 1..n |-> row(ids[i])]

InitDangling ==
    /\ todos = {}
    /\ dependsOn = [t \in TodoIds |-> {}]
    /\ nextId = 1
    /\ resp = NoResp
    /\ reqs = NoReqs
    /\ pc = "input"
    /\ result = NoResult
    /\ taskInsights = <<>>
    /\ probe = NoProbe
    /\ \E n \in 1..(MaxTasks - 1) :
         \E created \in [1..n -> CreatedTimes], due \in [1..(n + 1) -> DueDates],
            edges \in {E \in SUBSET ((1..n) \X (1..(n + 1))) :
                          /\ Cardinality(E) <= MaxEdges
                          /\ \E t \in 1..n : <<t, n + 1>> \in E},
            order \in Orders, depOrder \in Orders :
              snapshot = MakeDanglingSnapshot(n, created, due, edges, order, depOrder)

SpecDangling == InitDangling /\ [][NextInsights]_vars

\* ---------------------------------------------------------------- claims

\* the request answered by resp' was a PUT for an existing task whose
\* proposed ids all exist in the store the request found
PutOfExisting ==
    /\ resp'.op = "PUT"
    /\ resp'.todoId \in todos
    /\ Range(resp'.ids) \subseteq todos

\* C1: a PUT for task T with proposed ids S (all existing, none equal to T)
\* is rejected with the cycle error whenever replacing T's depends-on set by
\* S would make the committed graph cyclic, and the rejected request leaves
\* every stored depends-on set as it was.
C1_CycleRejected ==
    [][ ( /\ PutOfExisting
          /\ resp'.todoId \notin Range(resp'.ids)
          /\ ~IsAcyclic(Replaced(dependsOn, resp'.todoId, Range(resp'.ids)), TodoIds) )
        => ( /\ resp'.status = 400
             /\ resp'.error = "cycle"
             /\ dependsOn' = dependsOn
             /\ todos' = todos ) ]_vars

\* a PUT was rejected for a cycle that runs through a third task
C1_Witness ==
    /\ resp.op = "PUT" /\ resp.error = "cycle"
    /\ resp.todoId \notin dependsOn[resp.named[1]]
    /\ resp.todoId \notin Range(resp.ids)

\* C2: after any sequence of non-overlapping POST, PUT and DELETE requests
\* on an initially empty store the committed relation has no self-edge and
\* no cycle.
C2_Dag ==
    /\ \A t \in TodoIds : t \notin dependsOn[t]
    /\ IsAcyclic(dependsOn, TodoIds)

\* a PUT has committed the last edge of a chain over all tasks
C2_Witness ==
    /\ resp.op = "PUT" /\ resp.status = 200
    /\ todos = TodoIds
    /\ \E t \in todos : Reachable(dependsOn, t) = todos \ {t}

\* C3: once two concurrent PUT requests have both finished, the committed
\* relation is acyclic, whatever the interleaving of their reads and commits.
C3_AcyclicAfterConcurrentPuts ==
    (\A r \in Slots : reqs[r].pc = "done") =>
        IsAcyclic(dependsOn, TodoIds)

\* C4: a PUT for task T whose proposed ids include T is always rejected with
\* status 400 and leaves the store as it was.
C4_SelfRejected ==
    [][ ( /\ resp'.op = "PUT"
          /\ resp'.todoId \in Range(resp'.ids) )
        => ( /\ resp'.status = 400
             /\ dependsOn' = dependsOn
             /\ todos' = todos ) ]_vars

\* a PUT naming its own task after another, acceptable id was rejected
C4_Witness ==
    /\ resp.op = "PUT" /\ resp.status = 400 /\ resp.error = "self"
    /\ Len(resp.ids) >= 2
    /\ resp.ids[1] # resp.todoId
    /\ Range(resp.ids) \subseteq todos
    /\ dependsOn[resp.todoId] # {}

\* the graph the rejected request of resp asked for
Hypothetical == Replaced(dependsOn, resp.todoId, Range(resp.ids))

\* C10 as stated: the tasks named by a cycle rejection form a cycle of the
\* hypothetical post-edit graph when followed along direct depends-on edges.
C10_NamedFormDirectCycle ==
    (resp.op = "PUT" /\ resp.error = "cycle") =>
        /\ resp.named[1] \in Hypothetical[resp.named[2]]
        /\ resp.named[2] \in Hypothetical[resp.named[1]]

\* C10 amended: a cycle rejection names the edited task T and the offending
\* proposed dependency D; in the hypothetical post-edit graph T depends
\* directly on D and D reaches T along one or more depends-on edges.
C10_NamedLieOnCycle ==
    (resp.op = "PUT" /\ resp.error = "cycle") =>
        /\ resp.named[2] = resp.todoId
        /\ resp.named[1] \in Hypothetical[resp.named[2]]
        /\ resp.named[2] \in Reachable(Hypothetical, resp.named[1])

\* a cycle rejection whose cycle runs through a task that is not named
C10_Witness ==
    /\ resp.op = "PUT" /\ resp.error = "cycle"
    /\ Len(resp.ids) >= 2
    /\ resp.todoId \notin dependsOn[resp.named[1]]
    /\ resp.todoId \in Reachable(dependsOn, resp.named[1])

\* ---- vocabulary of the claims about calculateTaskInsights
SnapIds == Range(IdsOf(snapshot))

\* the depends-on relation of the snapshot, restricted to its own tasks
SnapRel ==
    [id \in SnapIds |->
        {dep.id : dep \in Range(Find(snapshot, id).dependsOn)} \cap SnapIds]

SnapAcyclic == IsAcyclic(SnapRel, SnapIds)

MaxOf(S) == CHOOSE x \in S : \A y \in S : x >= y

Created(id) == getTime(Find(snapshot, id).createdAt)
Due(id) == Find(snapshot, id).dueDate
EarliestStart(id) == getTime(result.insights[id].earliestStart)
\* effective completion time: the due date if set, else the earliest start
Completion(id) == IF Due(id) # Null THEN getTime(Due(id)) ELSE EarliestStart(id)
Position(id) == CHOOSE i \in 1..Len(result.sortedOrder) : result.sortedOrder[i] = id
Critical == {id \in SnapIds : result.insights[id].isCritical}

\* C5: topologicalSort as invoked by calculateTaskInsights reports
\* hasCycle = false with an order that holds every node exactly once if and
\* only if the depends-on graph is acyclic, and hasCycle = true if the graph
\* has a cycle, a self-edge included.
C5_CycleVerdict ==
    pc = "done" =>
        LET complete == /\ Len(result.sortedOrder) = Len(snapshot)
                        /\ Range(result.sortedOrder) = SnapIds
        IN  /\ (~result.hasCycle /\ complete) <=> SnapAcyclic
            /\ ~SnapAcyclic => result.hasCycle

\* a snapshot with a self-edge was reported cyclic
C5_Witness ==
    /\ pc = "done" /\ result.hasCycle
    /\ \E id \in SnapIds : id \in SnapRel[id]

\* C6: in the order calculateTaskInsights walks, every task of an acyclic
\* snapshot comes after all tasks it depends on.
C6_DependenciesFirst ==
    (pc = "done" /\ ~result.hasCycle) =>
        \A t \in SnapIds : \A d \in SnapRel[t] : Position(d) < Position(t)

\* C7: for an acyclic snapshot and a task T with dependencies D, the returned
\* earliestStart(T) is max(created(T), max over d in D of (dueDate(d) if set,
\* else the returned earliestStart(d))).
C7_EarliestStartRecurrence ==
    (pc = "done" /\ ~result.hasCycle) =>
        \A t \in SnapIds :
            SnapRel[t] # {} =>
                EarliestStart(t) =
                    MaxOf({Created(t)} \cup {Completion(d) : d \in SnapRel[t]})

\* C8: for an acyclic snapshot, a task all of whose direct dependencies have
\* a due date gets earliestStart = max(created, latest due date among them);
\* a task without dependencies gets its creation timestamp.
C8_EarliestStartFromDueDates ==
    (pc = "done" /\ ~result.hasCycle) =>
        \A t \in SnapIds :
            (\A d \in SnapRel[t] : Due(d) # Null) =>
                EarliestStart(t) =
                    MaxOf({Created(t)} \cup {getTime(Due(d)) : d \in SnapRel[t]})

\* a task with two dependencies of different due dates starts at the later one
C8_Witness ==
    /\ pc = "done" /\ ~result.hasCycle
    /\ \E t \in SnapIds : \E d1, d2 \in SnapRel[t] :
          /\ Due(d1) # Null /\ Due(d2) # Null
          /\ getTime(Due(d1)) < getTime(Due(d2))
          /\ Created(t) < getTime(Due(d2))
          /\ EarliestStart(t) = getTime(Due(d2))

\* C9: for a non-empty acyclic snapshot the tasks marked critical are exactly
\* one depends-on chain that starts at a task of globally maximal
\* earliestStart, continues each time with a direct dependency of maximal
\* effective completion time, and ends at a task without dependencies.
C9_CriticalIsOneChain ==
    (pc = "done" /\ ~result.hasCycle /\ snapshot # <<>>) =>
        \E c \in SeqsOver(SnapIds) :
            /\ c # <<>>
            /\ Range(c) = Critical
            /\ EarliestStart(c[1]) = MaxOf({EarliestStart(t) : t \in SnapIds})
            /\ \A k \in 1..(Len(c) - 1) :
                  /\ c[k + 1] \in SnapRel[c[k]]
                  /\ Completion(c[k + 1]) =
                        MaxOf({Completion(d) : d \in SnapRel[c[k]]})
            /\ SnapRel[c[Len(c)]] = {}

\* the ids a todo of the snapshot lists in its dependsOn array
Listed_DependsOn(id) == {dep.id : dep \in Range(Find(snapshot, id).dependsOn)}

\* ids referred to by some todo of the snapshot that are no todo of it
DanglingIds == (UNION {Listed_DependsOn(id) : id \in SnapIds}) \ SnapIds

\* C11 as stated: for a snapshot with a reference to an id that is not a
\* task of it, building the graph fails: no adjacency map comes back and no
\* insights are computed or stored.
C11_DanglingReferenceFails ==
    (pc = "done" /\ DanglingIds # {}) =>
        /\ DOMAIN result.graph = {}
        /\ DOMAIN result.reverseGraph = {}
        /\ DOMAIN result.insights = {}
        /\ taskInsights = <<>>

\* C11 amended: for such a snapshot buildDependencyGraph does not fail and
\* reports no id: both adjacency maps have an entry for every task, the
\* reference to the missing id is left out of both, every reference between
\* tasks of the snapshot is kept in listed order, and the cycle verdict is
\* the one of the remaining edges.
C11_DanglingEdgeDropped ==
    (pc = "done" /\ DanglingIds # {}) =>
        /\ DOMAIN result.graph = SnapIds
        /\ DOMAIN result.reverseGraph = SnapIds
        /\ \A t \in SnapIds :
              /\ result.graph[t] =
                    LET kept == SelectSeq(Find(snapshot, t).dependsOn,
                                          LAMBDA dep : dep.id \in SnapIds)
                    IN  [k \in 1..Len(kept) |-> kept[k].id]
              /\ Range(result.reverseGraph[t]) = {u \in SnapIds : t \in SnapRel[u]}
        /\ result.hasCycle <=> ~SnapAcyclic

\* a todo that lists a missing id and a task of the snapshot kept the latter
C11_Witness ==
    /\ pc = "done"
    /\ \E t \in SnapIds :
          /\ Listed_DependsOn(t) \cap DanglingIds # {}
          /\ SnapRel[t] # {}
          /\ Range(result.graph[t]) = SnapRel[t]

\* C12 as stated: for a snapshot with a cycle calculateTaskInsights produces
\* no earliestStart or isCritical value for any task and the caller stores
\* no estimates.
C12_NothingProducedOnCycle ==
    (pc = "done" /\ result.hasCycle) =>
        /\ DOMAIN result.insights = {}
        /\ taskInsights = <<>>

\* C12 amended: for a snapshot with a cycle the schedule and critical-path
\* calculations do not run; every task gets the placeholder earliestStart =
\* the epoch and isCritical = false, and the caller stores these placeholders.
C12_PlaceholdersOnCycle ==
    (pc = "done" /\ result.hasCycle) =>
        /\ ~result.threw
        /\ result.criticalPath = <<>>
        /\ DOMAIN result.insights = SnapIds
        /\ \A id \in SnapIds :
              result.insights[id] = [earliestStart |-> Date(0), isCritical |-> FALSE]
        /\ taskInsights = result.insights

\* the placeholder was stored for a task that is on no cycle
C12_Witness ==
    /\ pc = "done" /\ result.hasCycle
    /\ \E id \in SnapIds :
          /\ id \notin Reachable(SnapRel, id)
          /\ id \in DOMAIN taskInsights
          /\ taskInsights[id].earliestStart = Date(0)

\* C13: a PUT for task T with proposed ids S that is answered with 200
\* leaves T with exactly the depends-on set S (the empty S clears it), and
\* leaves every other task's depends-on set and the set of tasks as they were.
C13_ReplacesWholeSet ==
    [][ (resp'.op = "PUT" /\ resp'.status = 200)
        => ( /\ dependsOn'[resp'.todoId] = Range(resp'.ids)
             /\ \A t \in TodoIds \ {resp'.todoId} : dependsOn'[t] = dependsOn[t]
             /\ todos' = todos ) ]_vars

\* a PUT with no proposed ids has cleared the dependencies of a task that
\* another task depends on
C13_Witness ==
    /\ resp.op = "PUT" /\ resp.status = 200 /\ resp.ids = <<>>
    /\ dependsOn[resp.todoId] = {}
    /\ \E t \in todos : resp.todoId \in dependsOn[t]

\* C14: the two maps returned by buildDependencyGraph have an entry for every
\* task of the snapshot, and b is listed among the dependents of a exactly
\* when a is listed among the dependencies of b.
C14_ReverseIsInverse ==
    pc = "done" =>
        /\ DOMAIN result.graph = SnapIds
        /\ DOMAIN result.reverseGraph = SnapIds
        /\ \A a, b \in SnapIds :
              b \in Range(result.reverseGraph[a]) <=> a \in Range(result.graph[b])

\* a task with two dependents, itself depending on nothing
C14_Witness ==
    /\ pc = "done"
    /\ \E a \in SnapIds :
          /\ Cardinality(Range(result.reverseGraph[a])) = 2
          /\ result.graph[a] = <<>>

\* the dependsOn array of a todo of the snapshot, and the completion time the
\* backtracking reads for one of its entries
DepList(id) == Find(snapshot, id).dependsOn
DepCompletion(dep) ==
    IF dep.dueDate # Null THEN getTime(dep.dueDate) ELSE EarliestStart(dep.id)
\* the indices of the entries of id's dependsOn array that share the maximal
\* completion time
Tied(id) ==
    LET deps == DepList(id)
        mx == MaxOf({DepCompletion(deps[j]) : j \in 1..Len(deps)})
    IN  {j \in 1..Len(deps) : DepCompletion(deps[j]) = mx}

\* C15 as stated: when two or more direct dependencies of a task on the
\* critical path share the maximal completion time, the next critical task is
\* the one of them with the smallest id.
C15_TieSmallestId ==
    (pc = "done" /\ ~result.hasCycle) =>
        \A k \in 1..(Len(result.criticalPath) - 1) :
            LET cur == result.criticalPath[k]
            IN  Cardinality(Tied(cur)) >= 2 =>
                    result.criticalPath[k + 1] =
                        Min({DepList(cur)[j].id : j \in Tied(cur)})

\* C15 amended: when two or more direct dependencies of a task on the
\* critical path share the maximal completion time, the next critical task is
\* the one of them that is listed last in the task's dependsOn array; if that
\* maximal time is below -1 no dependency is chosen and the path ends.
C15_TieLastListed ==
    (pc = "done" /\ ~result.hasCycle) =>
        \A k \in 1..Len(result.criticalPath) :
            LET cur == result.criticalPath[k]
            IN  (DepList(cur) # <<>> /\ Cardinality(Tied(cur)) >= 2) =>
                    LET last == MaxOf(Tied(cur))
                    IN  IF DepCompletion(DepList(cur)[last]) >= -1
                        THEN /\ k < Len(result.criticalPath)
                             /\ result.criticalPath[k + 1] = DepList(cur)[last].id
                        ELSE k = Len(result.criticalPath)

\* of two tied dependencies the one with the larger id went on the path
C15_Witness ==
    /\ pc = "done" /\ ~result.hasCycle
    /\ \E k \in 1..(Len(result.criticalPath) - 1) :
          LET cur == result.criticalPath[k]
          IN  /\ Cardinality(Tied(cur)) >= 2
              /\ result.criticalPath[k + 1] >
                    Min({DepList(cur)[j].id : j \in Tied(cur)})

\* the index of a task in the todos array, which is the order of the nodes
\* list topologicalSort is given
InputIndex(id) == CHOOSE i \in 1..Len(snapshot) : snapshot[i].id = id

\* the number of nodes emitted when node w became ready: the position of the
\* last emitted node among those the graph given to topologicalSort lists for
\* w, and 0 for a node that was ready from the start
ReadyAfter(w) ==
    MaxOf({0} \cup {Position(x) : x \in Range(result.reverseGraph[w])})

\* C16 as stated: of two nodes that are both ready when one of them is
\* emitted, the one with the smaller id is emitted first.
C16_ReadyAscending ==
    pc = "done" =>
        \A i, j \in 1..Len(result.sortedOrder) :
            (i < j /\ ReadyAfter(result.sortedOrder[j]) < i) =>
                result.sortedOrder[i] < result.sortedOrder[j]

\* C16 amended: ready nodes are emitted first in, first out: a node that
\* became ready earlier is emitted earlier, and nodes that became ready at
\* the same moment are emitted in the order in which they appear in the
\* input list.
C16_ReadyFifo ==
    pc = "done" =>
        \A i, j \in 1..Len(result.sortedOrder) :
            i < j =>
                LET a == result.sortedOrder[i]
                    b == result.sortedOrder[j]
                IN  \/ ReadyAfter(a) < ReadyAfter(b)
                    \/ /\ ReadyAfter(a) = ReadyAfter(b)
                       /\ InputIndex(a) < InputIndex(b)

\* two nodes became ready when a third was emitted and the one with the
\* larger id was emitted first
C16_Witness ==
    /\ pc = "done"
    /\ \E i, j \in 1..Len(result.sortedOrder) :
          /\ i < j
          /\ ReadyAfter(result.sortedOrder[i]) = 1
          /\ ReadyAfter(result.sortedOrder[j]) = 1
          /\ result.sortedOrder[i] > result.sortedOrder[j]

\* no todo of the snapshot lists a dependency
NoEdges == \A id \in SnapIds : DepList(id) = <<>>

\* C17: for the empty snapshot no task is marked critical; for a non-empty
\* snapshot without dependency edges exactly one task is marked critical,
\* its earliestStart is the latest of the snapshot, and every task's
\* earliestStart is its creation timestamp.
C17_NoEdgesOneCritical ==
    pc = "done" =>
        /\ snapshot = <<>> =>
              /\ ~result.hasCycle
              /\ DOMAIN result.insights = {}
              /\ result.criticalPath = <<>>
        /\ (snapshot # <<>> /\ NoEdges) =>
              /\ ~result.hasCycle
              /\ Cardinality(Critical) = 1
              /\ \A c \in Critical :
                    EarliestStart(c) = MaxOf({EarliestStart(t) : t \in SnapIds})
              /\ \A t \in SnapIds : EarliestStart(t) = Created(t)

\* of three unrelated tasks the one in the middle of the list was created
\* last and is the critical one
C17_Witness ==
    /\ pc = "done" /\ NoEdges
    /\ Len(snapshot) = 3
    /\ Critical = {snapshot[2].id}
    /\ Created(snapshot[2].id) > Created(snapshot[1].id)
    /\ Created(snapshot[2].id) > Created(snapshot[3].id)

\* the snapshot is one linear chain: its tasks can be lined up so that the
\* first lists no dependency and each other one lists exactly its predecessor
IsChain ==
    \E c \in SeqsOver(SnapIds) :
        /\ c # <<>>
        /\ Range(c) = SnapIds
        /\ DepList(c[1]) = <<>>
        /\ \A k \in 1..(Len(c) - 1) :
              /\ Len(DepList(c[k + 1])) = 1
              /\ DepList(c[k + 1])[1].id = c[k]

\* C18: for a snapshot that is one linear chain in which no task has a due
\* date and all tasks were created at the same instant, every task gets that
\* instant as earliestStart and every task is marked critical.
C18_ChainAllCritical ==
    ( /\ pc = "done"
      /\ IsChain
      /\ \A t \in SnapIds : Due(t) = Null
      /\ \A t, u \in SnapIds : Created(t) = Created(u) )
    => ( /\ ~result.hasCycle
         /\ \A t \in SnapIds : EarliestStart(t) = Created(t)
         /\ Critical = SnapIds )

\* a chain of three tasks is all critical
C18_Witness ==
    /\ pc = "done" /\ IsChain
    /\ \A t \in SnapIds : Due(t) = Null
    /\ \A t, u \in SnapIds : Created(t) = Created(u)
    /\ Len(result.criticalPath) = 3
    /\ Critical = SnapIds

\* the verdict of the client's cycle detection, topologicalSort, on the store
\* as it would be after the request of resp' had replaced its task's set
HypotheticalHasCycle ==
    LET hyp == Replaced(dependsOn, resp'.todoId, Range(resp'.ids))
    IN  topologicalSort([t \in todos |-> SortedSeq(hyp[t])],
                        SortedSeq(todos)).hasCycle

\* C20: a PUT for task T with proposed ids S (all existing, T not among
\* them) is accepted exactly when cycle detection finds no cycle in the graph
\* obtained by replacing T's depends-on set with S; a PUT that proposes only
\* ids T already depends on is always accepted.
C20_ProbeMatchesDetection ==
    [][ (PutOfExisting /\ resp'.todoId \notin Range(resp'.ids))
        => ( /\ resp'.status = 200 <=> ~HypotheticalHasCycle
             /\ resp'.status # 200 => resp'.error = "cycle"
             /\ Range(resp'.ids) \subseteq dependsOn[resp'.todoId]
                   => resp'.status = 200 ) ]_vars

\* a PUT was accepted whose probe had to descend: it proposed two ids, one
\* of which depends on the other
C20_Witness ==
    /\ resp.op = "PUT" /\ resp.status = 200
    /\ Len(resp.ids) = 2
    /\ \E s \in Range(resp.ids) : dependsOn[s] \cap Range(resp.ids) # {}

\* C21: a call checkCircularDependency(T, D, {}) on any committed graph,
\* cyclic ones included, comes to an end having got past the visited check at
\* most once per task, and it returns true exactly when D = T or T can be
\* reached from D along committed depends-on edges.
C21_ProbeIsReachability ==
    probe.called =>
        /\ \A i, j \in 1..Len(probe.visits) :
              i # j => probe.visits[i] # probe.visits[j]
        /\ Range(probe.visits) \subseteq todos \cup {probe.dependencyId}
        /\ probe.found <=>
              \/ probe.dependencyId = probe.todoId
              \/ /\ probe.dependencyId \in TodoIds
                 /\ probe.todoId \in Reachable(dependsOn, probe.dependencyId)

\* the probe ended with false on a graph with a cycle that does not pass
\* through T, after it had gone round that cycle
C21_Witness ==
    /\ probe.called /\ ~probe.found
    /\ probe.dependencyId \in TodoIds
    /\ probe.dependencyId \in Reachable(dependsOn, probe.dependencyId)
    /\ probe.todoId \in todos
    /\ Len(probe.visits) = 2

\* the snapshot without the dependsOn entries that refer to missing ids
Stripped ==
    [i \in 1..Len(snapshot) |->
        [snapshot[i] EXCEPT !.dependsOn =
            SelectSeq(snapshot[i].dependsOn, LAMBDA dep : dep.id \in SnapIds)]]

\* C22: for a snapshot with a reference to an id that is not a task of it,
\* calculateTaskInsights completes normally, marks only tasks of the snapshot
\* critical, and returns the insights it returns for the snapshot without
\* that reference: the reference is ignored when computing earliest starts
\* and when backtracking the critical path.
C22_DanglingIgnoredInAllPhases ==
    (pc = "done" /\ DanglingIds # {}) =>
        /\ ~result.threw
        /\ Range(result.criticalPath) \subseteq SnapIds
        /\ DOMAIN result.insights = SnapIds
        /\ result.insights = calculateTaskInsights(Stripped).insights

====
